---- MODULE Spec2Model ----
(***************************************************************************)
(* snap-store: the signal / effect / reactivity-hub engine.                *)
(*                                                                         *)
(* JavaScript is single threaded: every public operation (setValue,        *)
(* effect, a disposer, the flush microtask) runs to completion before the  *)
(* next one starts, so each is one action.  The operators below transform  *)
(* a record `st` holding the program state; an action applies one of them  *)
(* to the current state and commits the result.                            *)
(***************************************************************************)
EXTENDS Integers, Sequences, FiniteSets, TLC

\* ------------------------------------------------------------------ bounds
MaxVal == 1
MaxEffects == 2
MaxLog == 3
MaxClosures == 2

\* ------------------------------------------------------------- vocabulary
Sigs == {"A", "B"}
Vals == 0..MaxVal
None == 0

\* computed(cfn): its internal signal, created with the value undefined
internalSignal == "C"
Undef == 0 - 1
AllSigs == Sigs \cup {internalSignal}

\* Callback references handed to effect(): each is one JavaScript function.
CoreFns == {"fCond", "fWrite", "fThrow"}
NestFns == {"fOuter", "fReadC"}

\* A listener is a callback reference; Set semantics use reference identity.
FnL(f) == [kind |-> "fn", name |-> f, k |-> 0]

\* The k-th recompute closure made by the computed's ensureInitialized.
RcL(k) == [kind |-> "rc", name |-> "c1", k |-> k]

\* SetterPayload<T>: a literal or an updater (prev) => next.
Lit(v) == [fn |-> "lit", v |-> v]
Upd(u) == [fn |-> u, v |-> 0]
Payloads == {Lit(v) : v \in Vals} \cup {Upd("inc"), Upd("same"), Upd("throw")}

\* The functions given to computed(): see Cfn.
CFns == {"cSel", "cThrow"}

\* F applied to the value of v, with v evaluated once
Bind(v, F(_)) == CHOOSE r \in {F(x) : x \in {v}} : TRUE

Range(s) == {s[i] : i \in 1..Len(s)}

\* JavaScript Set kept in insertion order: add, delete.
SetAdd(s, x) == IF x \in Range(s) THEN s ELSE Append(s, x)
SetDelete(s, x) == SelectSeq(s, LAMBDA y : y # x)

VARIABLES
  value,             \* holder.value of each signal
  listeners,         \* holder.listeners of each signal (insertion ordered Set)
  receivers,         \* EffectReceiver objects, by creation order
  currentEffect,     \* hub: index into receivers, None when undefined
  pendingListeners,  \* hub: insertion ordered Set
  flushScheduled,    \* hub flag
  microtasks,        \* number of flush callbacks queued by Promise.resolve().then
  owed,              \* history: receivers a write of this turn should re-trigger
  enqOrder,          \* history: listeners in order of their first enqueue
  deferred,          \* history: listeners enqueued while the last flush ran
  log,               \* the array the logging effect pushes to
  initialized,       \* computed: the initialized flag
  cleanupEffect,     \* computed: receiver the cleanup closure is bound to, or None
  closures,          \* computed: number of recompute closures made so far
  cfn,               \* computed: the function it was constructed with
  lastOp,            \* history: what the last operation did
  store              \* the store revision with subscribe: all of its state

vars == <<value, listeners, receivers, currentEffect, pendingListeners,
          flushScheduled, microtasks, owed, enqOrder, deferred, log,
          initialized, cleanupEffect, closures, cfn, lastOp, store>>

\* The program state as one record, plus what the running operation records.
St ==
  [value |-> value, listeners |-> listeners, recv |-> receivers,
   currentEffect |-> currentEffect, pendingListeners |-> pendingListeners,
   flushScheduled |-> flushScheduled, microtasks |-> microtasks,
   owed |-> owed, enqOrder |-> enqOrder, deferred |-> deferred, log |-> log,
   initialized |-> initialized, cleanupEffect |-> cleanupEffect,
   closures |-> closures, cfn |-> cfn,
   inFlush |-> FALSE, thrown |-> FALSE, ret |-> Undef, runs |-> <<>>,
   ctx |-> <<>>, wrote |-> FALSE]

RECURSIVE effect(_, _)
RECURSIVE RunFn(_, _)
RECURSIVE CallListener(_, _)
RECURSIVE ForEachListener(_, _, _)

\* ------------------------------------------------------------ reactivity hub
getCurrentEffect(st) == st.currentEffect

setCurrentEffect(st, e) == [st EXCEPT !.currentEffect = e]

\* mutant: re-adding a pending listener moves it to the end of the set
addPendingListener_MoveToEnd(st, l) ==
  [st EXCEPT !.pendingListeners = Append(SetDelete(@, l), l)]

addPendingListener(st, l) ==
  [st EXCEPT !.pendingListeners = SetAdd(@, l)]

\* mutant: the flush-scheduled flag is not consulted
scheduleFlush_NoGuard(st) ==
  [st EXCEPT !.flushScheduled = TRUE, !.microtasks = @ + 1]

scheduleFlush(st) ==
  IF st.flushScheduled THEN st
  ELSE [st EXCEPT !.flushScheduled = TRUE, !.microtasks = @ + 1]

\* an exception leaves the running function
Throw(st) == [st EXCEPT !.thrown = TRUE]

\* ------------------------------------------------------------------- signal
subscribe(st, s, l) == [st EXCEPT !.listeners[s] = SetAdd(@, l)]

\* the closure returned by subscribe: () => holder.listeners.delete(listener)
unsubscribe(st, u) == [st EXCEPT !.listeners[u.sig] = SetDelete(@, u.listener)]

\* get value(): registers the holder with the current effect, once.
\* mutant: the getter does not consult ce.signalHolders
GetValue_NoHasCheck(st, s) ==
  LET ce == getCurrentEffect(st) IN
  IF ce # None
  THEN LET l == st.recv[ce].listener
           s1 == [st EXCEPT !.recv[ce].signalHolders = @ \cup {s}]
           s2 == subscribe(s1, s, l)
       IN [s2 EXCEPT !.recv[ce].cleanup = Append(@, [sig |-> s, listener |-> l])]
  ELSE st

GetValue(sx, s) ==
  Bind(sx, LAMBDA st :
  LET ce == getCurrentEffect(st) IN
  IF ce # None /\ s \notin st.recv[ce].signalHolders
  THEN LET l == st.recv[ce].listener
           s1 == [st EXCEPT !.recv[ce].signalHolders = @ \cup {s}]
           s2 == subscribe(s1, s, l)
       IN [s2 EXCEPT !.recv[ce].cleanup = Append(@, [sig |-> s, listener |-> l])]
  ELSE st)

ApplyPayload(arg, prev) ==
  CASE arg.fn = "lit" -> arg.v
    [] arg.fn = "inc" -> (prev + 1) % (MaxVal + 1)
    [] OTHER -> prev

RECURSIVE AddPendingAll(_, _, _)
AddPendingAll(sx, ls, i) ==
  Bind(sx, LAMBDA st :
  IF i > Len(ls) THEN st
  ELSE AddPendingAll(addPendingListener(st, ls[i]), ls, i + 1))

\* mutant: the listeners are enqueued and the flush is requested before the
\* updater is applied
setValue_NotifyBeforeUpdater(st, s, arg) ==
  Bind(scheduleFlush(AddPendingAll(st, st.listeners[s], 1)), LAMBDA s1 :
  LET v == ApplyPayload(arg, s1.value[s]) IN
  IF arg.fn = "throw" THEN Throw(s1) ELSE [s1 EXCEPT !.value[s] = v])

\* mutant: the write does not request a flush
setValue_NoSchedule(st, s, arg) ==
  LET v == ApplyPayload(arg, st.value[s]) IN
  IF arg.fn = "throw" THEN Throw(st)
  ELSE IF v = st.value[s] THEN st
  ELSE LET s1 == [st EXCEPT !.value[s] = v] IN
       AddPendingAll(s1, s1.listeners[s], 1)

\* mutant: the equality check is missing
setValue_NoEqualityCheck(st, s, arg) ==
  LET v == ApplyPayload(arg, st.value[s])
      s1 == [st EXCEPT !.value[s] = v]
      s2 == AddPendingAll(s1, s1.listeners[s], 1)
  IN scheduleFlush(s2)

\* mutant: the listeners are called from inside setValue
setValue_NotifySync(st, s, arg) ==
  LET v == ApplyPayload(arg, st.value[s]) IN
  IF v = st.value[s] THEN st
  ELSE LET s1 == [st EXCEPT !.value[s] = v]
       IN ForEachListener(s1, s1.listeners[s], 1)

setValue(sx, s, arg) ==
  Bind(sx, LAMBDA st :
  LET v == ApplyPayload(arg, st.value[s]) IN
  IF arg.fn = "throw" THEN Throw(st)     \* the updater throws: arg(holder.value)
  ELSE IF v = st.value[s] THEN st
  ELSE LET s1 == [st EXCEPT !.value[s] = v] IN
       Bind(AddPendingAll(s1, s1.listeners[s], 1), LAMBDA s2 :
            scheduleFlush(s2)))

\* History kept beside a write: which receivers the write should re-trigger and
\* in which order listeners were first enqueued.  It reads the code's state and
\* changes none of it.
RECURSIVE SetAddAll(_, _, _)
SetAddAll(q, ls, i) ==
  IF i > Len(ls) THEN q ELSE SetAddAll(SetAdd(q, ls[i]), ls, i + 1)

NoteWrite(before, s, sx) ==
  Bind(sx, LAMBDA after :
  IF after.value[s] = before.value[s] THEN after
  ELSE [after EXCEPT
          !.wrote = TRUE,
          !.owed = @ \cup {r \in 1..Len(before.recv) :
                             /\ before.recv[r].retained
                             /\ ~before.recv[r].disposed
                             /\ s \in before.recv[r].initReads},
          !.enqOrder = SetAddAll(@, before.listeners[s], 1),
          !.deferred = IF before.inFlush
                       THEN @ \cup Range(before.listeners[s]) ELSE @])

Write(sx, s, arg) ==
  Bind(sx, LAMBDA st : NoteWrite(st, s, setValue(st, s, arg)))

\* ------------------------------------------------------------------ effects
createEffectReceiver(l) ==
  [listener |-> l, signalHolders |-> {}, cleanup |-> <<>>,
   retained |-> FALSE, disposed |-> FALSE, initReads |-> {}]

NoteRun(st, l, via) ==
  [st EXCEPT !.runs = Append(@,
     [listener |-> l, via |-> via,
      ce |-> IF st.currentEffect = None THEN [kind |-> "none", name |-> "", k |-> 0]
             ELSE st.recv[st.currentEffect].listener])]

\* ----------------------------------------------------------------- computed
\* The function given to computed(), one of
\*   cThrow: () => { const a = A.value; if (a !== 0) return a;
\*                   const b = B.value; if (b === 0) throw new Error(); return b }
\*   cSel:   () => { const a = A.value; if (a !== 0) return 10 + a;
\*                   return B.value }
Cfn(st) ==
  Bind(GetValue(st, "A"), LAMBDA s1 :
  IF s1.cfn = "cThrow"
  THEN IF s1.value["A"] # 0 THEN [s1 EXCEPT !.ret = s1.value["A"]]
       ELSE Bind(GetValue(s1, "B"), LAMBDA s2 :
            IF s2.value["B"] = 0 THEN Throw(s2)
            ELSE [s2 EXCEPT !.ret = s2.value["B"]])
  ELSE IF s1.value["A"] # 0 THEN [s1 EXCEPT !.ret = 10 + s1.value["A"]]
       ELSE Bind(GetValue(s1, "B"), LAMBDA s2 :
            [s2 EXCEPT !.ret = s2.value["B"]]))

\* the listener of the computed's receiver: () => internalSignal.setValue(fn())
Recompute(st) ==
  Bind(Cfn(st), LAMBDA s1 :
  IF s1.thrown THEN s1 ELSE Write(s1, internalSignal, Lit(s1.ret)))

\* mutant: the initialized guard is missing
ensureInitialized_NoGuard(sx) ==
  Bind(sx, LAMBDA st :
    LET k == st.closures + 1
        effectReceiver == createEffectReceiver(RcL(k))
        s0 == [st EXCEPT !.recv = Append(@, effectReceiver), !.closures = k]
        id == Len(st.recv) + 1
        prevEffect == getCurrentEffect(st)
        s1 == setCurrentEffect(s0, id)
    IN Bind(Recompute(NoteRun(s1, RcL(k), "init")), LAMBDA s2 :
       LET s3 == setCurrentEffect(s2, prevEffect)
           s4 == [s3 EXCEPT !.recv[id].initReads = s3.recv[id].signalHolders,
                            !.ctx = Append(@, [before |-> prevEffect,
                                               after |-> s3.currentEffect,
                                               threw |-> s3.thrown])]
       IN IF s2.thrown THEN s4
          ELSE [s4 EXCEPT !.cleanupEffect = id, !.initialized = TRUE,
                          !.recv[id].retained = TRUE]))

ensureInitialized(sx) ==
  Bind(sx, LAMBDA st :
  IF st.initialized THEN st
  ELSE
    LET k == st.closures + 1
        effectReceiver == createEffectReceiver(RcL(k))
        s0 == [st EXCEPT !.recv = Append(@, effectReceiver), !.closures = k]
        id == Len(st.recv) + 1
        prevEffect == getCurrentEffect(st)
        s1 == setCurrentEffect(s0, id)
    IN Bind(Recompute(NoteRun(s1, RcL(k), "init")), LAMBDA s2 :
       LET s3 == setCurrentEffect(s2, prevEffect)   \* finally
           s4 == [s3 EXCEPT !.recv[id].initReads = s3.recv[id].signalHolders,
                            !.ctx = Append(@, [before |-> prevEffect,
                                               after |-> s3.currentEffect,
                                               threw |-> s3.thrown])]
       IN IF s2.thrown THEN s4
          ELSE [s4 EXCEPT !.cleanupEffect = id, !.initialized = TRUE,
                          !.recv[id].retained = TRUE]))

\* get value() of the computed
ComputedValue(st) ==
  Bind(ensureInitialized(st), LAMBDA s1 :
  IF s1.thrown THEN s1 ELSE GetValue(s1, internalSignal))

\* The bodies of the callbacks.
RunFn(st, f) ==
  CASE f = "fCond" ->    \* () => { if (a.value === 0) b.value }
         Bind(GetValue(st, "A"), LAMBDA s1 :
              IF s1.value["A"] = 0 THEN GetValue(s1, "B") ELSE s1)
    [] f = "fWrite" ->   \* () => { b.setValue(a.value) }
         Bind(GetValue(st, "A"), LAMBDA s1 :
              Write(s1, "B", Lit(s1.value["A"])))
    [] f = "fThrow" ->   \* () => { if (b.value === 0) throw new Error() }
         Bind(GetValue(st, "B"), LAMBDA s1 :
              IF s1.value["B"] = 0 THEN Throw(s1) ELSE s1)
    [] f = "fOuter" ->   \* () => { effect(fThrow); a.value }
         Bind(effect(st, "fThrow"), LAMBDA s1 :
              IF s1.thrown THEN s1 ELSE GetValue(s1, "A"))
    [] f = "fLog" ->     \* () => log.push(a.value)
         Bind(GetValue(st, "A"), LAMBDA s1 :
              [s1 EXCEPT !.log = Append(@, s1.value["A"])])
    [] f = "fReadC" ->   \* () => { c1.value; b.value }
         Bind(ComputedValue(st), LAMBDA s1 :
              IF s1.thrown THEN s1 ELSE GetValue(s1, "B"))
    [] f = "fTwice" ->   \* () => { a.value; a.value; b.value }
         Bind(GetValue(st, "A"), LAMBDA s1 :
              Bind(GetValue(s1, "A"), LAMBDA s2 : GetValue(s2, "B")))
    [] OTHER -> st

\* mutant: the new receiver is not made the current effect
effect_NoSetCurrent(st, f) ==
  LET effectReceiver == createEffectReceiver(FnL(f))
      s0 == [st EXCEPT !.recv = Append(@, effectReceiver)]
      id == Len(st.recv) + 1
      prevEffect == getCurrentEffect(st)
  IN Bind(RunFn(NoteRun(s0, FnL(f), "init"), f), LAMBDA s2 :
     LET s3 == setCurrentEffect(s2, prevEffect)
     IN [s3 EXCEPT !.recv[id].initReads = s3.recv[id].signalHolders,
                   !.ctx = Append(@, [before |-> prevEffect,
                                      after |-> s3.currentEffect,
                                      threw |-> s3.thrown])])

\* mutant: the current effect is restored only when fn returns normally
effect_NoFinally(sx, f) ==
  Bind(sx, LAMBDA st :
  LET effectReceiver == createEffectReceiver(FnL(f))
      s0 == [st EXCEPT !.recv = Append(@, effectReceiver)]
      id == Len(st.recv) + 1
      prevEffect == getCurrentEffect(st)
      s1 == setCurrentEffect(s0, id)
  IN Bind(RunFn(NoteRun(s1, FnL(f), "init"), f), LAMBDA s2 :
     LET s3 == IF s2.thrown THEN s2 ELSE setCurrentEffect(s2, prevEffect)
     IN [s3 EXCEPT !.recv[id].initReads = s3.recv[id].signalHolders,
                   !.ctx = Append(@, [before |-> prevEffect,
                                      after |-> s3.currentEffect,
                                      threw |-> s3.thrown])]))

\* effect(fn): the new receiver is the last element of st.recv on return.
effect(sx, f) ==
  Bind(sx, LAMBDA st :
  LET effectReceiver == createEffectReceiver(FnL(f))
      s0 == [st EXCEPT !.recv = Append(@, effectReceiver)]
      id == Len(st.recv) + 1
      prevEffect == getCurrentEffect(st)
      s1 == setCurrentEffect(s0, id)
  IN Bind(RunFn(NoteRun(s1, FnL(f), "init"), f), LAMBDA s2 :
     LET s3 == setCurrentEffect(s2, prevEffect)   \* finally
     IN [s3 EXCEPT !.recv[id].initReads = s3.recv[id].signalHolders,
                   !.ctx = Append(@, [before |-> prevEffect,
                                      after |-> s3.currentEffect,
                                      threw |-> s3.thrown])]))

\* the disposer returned by effect(fn)
RECURSIVE CleanupAll(_, _, _)
CleanupAll(sx, cs, i) ==
  Bind(sx, LAMBDA st :
  IF i > Len(cs) THEN st ELSE CleanupAll(unsubscribe(st, cs[i]), cs, i + 1))

\* mutant: the recorded unsubscribe closures are dropped without being called
disposer_KeepsSubscriptions(st, r) ==
  [st EXCEPT !.recv[r].cleanup = <<>>,
             !.recv[r].signalHolders = {},
             !.recv[r].disposed = TRUE,
             !.recv[r].initReads = {}]

\* mutant: the cleanup list and the dependency set are not cleared
disposer_KeepsCleanupList(st, r) ==
  Bind(CleanupAll(st, st.recv[r].cleanup, 1), LAMBDA s1 :
  [s1 EXCEPT !.recv[r].disposed = TRUE,
             !.recv[r].initReads = {}])

disposer(st, r) ==
  Bind(CleanupAll(st, st.recv[r].cleanup, 1), LAMBDA s1 :
  [s1 EXCEPT !.recv[r].cleanup = <<>>,
             !.recv[r].signalHolders = {},
             !.recv[r].disposed = TRUE,
             !.recv[r].initReads = {}])

\* cleanup() of the computed: cleanupEffect?.()
ComputedCleanup(st) ==
  IF st.cleanupEffect = None THEN st ELSE disposer(st, st.cleanupEffect)

\* ------------------------------------------------------------------- flush

\* mutant: the flush does not reset the flush-scheduled flag
flushCallback_KeepsFlag(st) ==
  LET ls == st.pendingListeners
      s1 == [st EXCEPT !.pendingListeners = <<>>, !.microtasks = @ - 1]
  IN ForEachListener(s1, ls, 1)

\* mutant: the flush leaves the pending set as it was
flushCallback_KeepsPending(st) ==
  LET ls == st.pendingListeners
      s1 == [st EXCEPT !.flushScheduled = FALSE, !.microtasks = @ - 1]
  IN ForEachListener(s1, ls, 1)

\* listener(): a listener registered by an effect is the callback itself.
CallListener(sx, l) ==
  Bind(sx, LAMBDA st :
  LET s1 == NoteRun(st, l, "listener") IN
  IF l.kind = "fn" THEN RunFn(s1, l.name) ELSE Recompute(s1))

\* listeners.forEach(listener => listener()): an exception ends the loop.
ForEachListener(sx, ls, i) ==
  Bind(sx, LAMBDA st :
  IF i > Len(ls) \/ st.thrown THEN st
  ELSE ForEachListener(CallListener(st, ls[i]), ls, i + 1))

flushCallback(sx) ==
  Bind(sx, LAMBDA st :
  LET ls == st.pendingListeners
      s1 == [st EXCEPT !.pendingListeners = <<>>,
                       !.flushScheduled = FALSE,
                       !.microtasks = @ - 1]
  IN ForEachListener(s1, ls, 1))

\* ------------------------------------------------------------------ actions
\* Receivers nobody can reach any more (no disposer was returned or kept) are
\* dropped from the end of the table.
RECURSIVE DropUnreachable(_)
DropUnreachable(sx) ==
  Bind(sx, LAMBDA st :
  LET n == Len(st.recv) IN
  IF n > 0 /\ ~st.recv[n].retained /\ st.currentEffect # n
  THEN DropUnreachable([st EXCEPT !.recv = SubSeq(@, 1, n - 1)])
  ELSE st)

Commit(sx, op) ==
  \E st0 \in {sx} : \E st \in {DropUnreachable(st0)} :
  /\ value' = st.value
  /\ listeners' = st.listeners
  /\ receivers' = st.recv
  /\ currentEffect' = st.currentEffect
  /\ pendingListeners' = st.pendingListeners
  /\ flushScheduled' = st.flushScheduled
  /\ microtasks' = st.microtasks
  /\ owed' = st.owed
  /\ enqOrder' = st.enqOrder
  /\ deferred' = st.deferred
  /\ log' = st.log
  /\ initialized' = st.initialized
  /\ cleanupEffect' = st.cleanupEffect
  /\ closures' = st.closures
  /\ cfn' = st.cfn
  /\ store' = store
  /\ lastOp' = [op EXCEPT !.threw = st0.thrown, !.runs = st0.runs,
                          !.ctx = st0.ctx, !.wrote = st0.wrote,
                          !.late = {l \in deferred : \E i \in 1..Len(st0.runs) :
                                      /\ st0.runs[i].listener = l
                                      /\ st0.runs[i].via = "listener"}]

\* -------------------------------------- store revision with subscribe
\* createStore({a: _, b: _}) of the revision with subscribe and hook entries.
MaxListeners == 2
MaxHooks == 2

FieldKeys == {"a", "b"}
\* the changeset object: every key maps to its value, or to Undef when absent
NoKeys == [k \in FieldKeys |-> Undef]

SOp(name) == [op |-> name, threw |-> FALSE, calls |-> <<>>, refreshed |-> <<>>]

createStore(init0) ==
  [state |-> init0,
   listeners |-> <<>>,                    \* the listeners array
   changeset |-> [def |-> FALSE, obj |-> NoKeys],
   flushScheduled |-> FALSE,
   microtasks |-> 0,                      \* queued flushChanges callbacks
   hub |-> <<>>,                          \* hookId -> entry, in insertion order
   entries |-> <<>>,                      \* the HookEntry objects created
   turn |-> NoKeys,                       \* history: committed since the last flush began
   owed |-> {},                           \* history: <<listener, key>> not yet delivered
   thrown |-> FALSE,
   last |-> SOp("init")]

Op(name) ==
  [op |-> name, threw |-> FALSE, runs |-> <<>>, ctx |-> <<>>, wrote |-> FALSE,
   late |-> {}]

Init ==
  /\ value \in {v \in [AllSigs -> Vals \cup {Undef}] :
                   /\ v[internalSignal] = Undef
                   /\ \A s \in Sigs : v[s] \in Vals}
  /\ listeners = [s \in AllSigs |-> <<>>]
  /\ receivers = <<>>
  /\ currentEffect = None
  /\ pendingListeners = <<>>
  /\ flushScheduled = FALSE
  /\ microtasks = 0
  /\ owed = {}
  /\ enqOrder = <<>>
  /\ deferred = {}
  /\ log = <<>>
  /\ initialized = FALSE
  /\ cleanupEffect = None
  /\ closures = 0
  /\ cfn = "cThrow"
  /\ lastOp = Op("init")
  /\ store = createStore([k \in FieldKeys |-> 0])

\* signal.setValue(arg) called by the program, outside any flush
SetValue(s, arg) ==
  /\ s \in Sigs
  /\ Commit(Write(St, s, arg),
            Op(CASE arg.fn = "throw" -> "setThrow"
                 [] ApplyPayload(arg, value[s]) = value[s] -> "setSame"
                 [] OTHER -> "setValue"))

\* const dispose = effect(fn) called by the program
CreateEffect(f) ==
  /\ Len(receivers) < MaxEffects
  /\ f = "fReadC" => initialized \/ closures < MaxClosures
  /\ \E s1 \in {effect(St, f)} :
       LET id == Len(receivers) + 1 IN
       Commit(IF s1.thrown THEN s1 ELSE [s1 EXCEPT !.recv[id].retained = TRUE],
              Op("effect"))

\* dispose() called by the program
Dispose(r) ==
  /\ r \in 1..Len(receivers)
  /\ receivers[r].retained
  /\ receivers[r].listener.kind = "fn"
  /\ Commit(disposer(St, r),
            Op(IF receivers[r].disposed THEN "disposeAgain" ELSE "dispose"))

\* the microtask queued by scheduleFlush runs
Flush ==
  /\ microtasks > 0
  /\ Commit(flushCallback([St EXCEPT !.inFlush = TRUE, !.owed = {},
                                      !.enqOrder = <<>>, !.deferred = {}]),
            Op("flush"))

Next ==
  \/ \E s \in Sigs, arg \in Payloads : SetValue(s, arg)
  \/ \E f \in CoreFns : CreateEffect(f)
  \/ \E r \in 1..MaxEffects : Dispose(r)
  \/ Flush

Spec == Init /\ [][Next]_vars

\* c1.value read by the program
ReadComputed ==
  /\ initialized \/ closures < MaxClosures
  /\ Commit(ComputedValue(St), Op("read"))

\* c1.cleanup() called by the program
CleanupComputed ==
  /\ cleanupEffect # None
  /\ Commit(ComputedCleanup(St), Op("cleanup"))

\* Programs with nested tracking contexts: an effect whose body creates an
\* effect, an effect whose body reads the computed.
NextNest ==
  \/ \E s \in Sigs, arg \in Payloads : SetValue(s, arg)
  \/ \E f \in NestFns : CreateEffect(f)
  \/ \E r \in 1..(MaxEffects + 1) : Dispose(r)
  \/ ReadComputed
  \/ CleanupComputed
  \/ Flush

NestSpec == Init /\ [][NextNest]_vars

\* The program of the end-to-end property: one logging effect on signal A.
NextLog ==
  \/ \E s \in Sigs, arg \in Payloads : Len(log) < MaxLog /\ SetValue(s, arg)
  \/ receivers = <<>> /\ CreateEffect("fLog")
  \/ Flush

LogSpec == Init /\ [][NextLog]_vars

\* c1.subscribe(fExt) called by the program; fExt is a callback that reads and
\* writes no signal, and the returned unsubscribe closure is not kept.
SubscribeComputed ==
  /\ currentEffect = None
  /\ Commit(subscribe(St, internalSignal, FnL("fExt")), Op("subscribe"))

\* the receivers made by effect() that the program still holds
NumEffects ==
  Cardinality({r \in 1..Len(receivers) : receivers[r].listener.kind = "fn"})

\* const dispose = effect(() => { c1.value; b.value }) called by the program;
\* up to MaxEffects such effects exist beside the computed's own receiver.
CreateReader ==
  /\ NumEffects < MaxEffects
  /\ initialized \/ closures < MaxClosures
  /\ \E s1 \in {effect(St, "fReadC")} :
       LET id == Len(receivers) + 1 IN
       Commit(IF s1.thrown THEN s1 ELSE [s1 EXCEPT !.recv[id].retained = TRUE],
              Op("effect"))

\* Programs around one computed: direct reads, a subscriber, effects that read
\* it, its cleanup.
InitComp ==
  \E c \in CFns :
    /\ value \in {v \in [AllSigs -> Vals \cup {Undef}] :
                     /\ v[internalSignal] = Undef
                     /\ \A s \in Sigs : v[s] \in Vals}
    /\ listeners = [s \in AllSigs |-> <<>>]
    /\ receivers = <<>>
    /\ currentEffect = None
    /\ pendingListeners = <<>>
    /\ flushScheduled = FALSE
    /\ microtasks = 0
    /\ owed = {}
    /\ enqOrder = <<>>
    /\ deferred = {}
    /\ log = <<>>
    /\ initialized = FALSE
    /\ cleanupEffect = None
    /\ closures = 0
    /\ cfn = c
    /\ lastOp = Op("init")
    /\ store = createStore([k \in FieldKeys |-> 0])

NextComp ==
  \/ \E s \in Sigs, v \in Vals : SetValue(s, Lit(v))
  \/ CreateReader
  \/ \E r \in 1..(MaxEffects + 1) : Dispose(r)
  \/ ReadComputed
  \/ SubscribeComputed
  \/ CleanupComputed
  \/ Flush

CompSpec == InitComp /\ [][NextComp]_vars

CompLiveSpec == InitComp /\ [][NextComp]_vars /\ WF_vars(Flush)

\* A program none of whose callbacks throws; the event loop runs the flush
\* microtask whenever one is queued.
LiveFns == {"fCond", "fWrite"}

NextLive ==
  \/ \E s \in Sigs, arg \in Payloads : SetValue(s, arg)
  \/ \E f \in LiveFns : CreateEffect(f)
  \/ \E r \in 1..MaxEffects : Dispose(r)
  \/ Flush

LiveSpec == Init /\ [][NextLive]_vars /\ WF_vars(Flush)

\* ------------------------------------------------------------------ helpers
\* the listeners the flush loop called, in call order
Called(runs) ==
  LET ix == SelectSeq([i \in 1..Len(runs) |-> i],
                      LAMBDA i : runs[i].via = "listener")
  IN [j \in 1..Len(ix) |-> runs[ix[j]].listener]

\* how many times the body of listener l was invoked
Count(runs, l) == Cardinality({i \in 1..Len(runs) : runs[i].listener = l})

IsPrefix(p, q) == Len(p) <= Len(q) /\ p = SubSeq(q, 1, Len(p))

FlushStep == lastOp'.op = "flush"

\* ------------------------------------------------------------------- claims

\* C1: every effect that read A and B in its initial run and was undisposed when
\* a value-changing write to A or B happened in the turn has its body invoked
\* exactly once by the following flush.
C1_BatchedOnce ==
  [][FlushStep =>
       \A r \in owed :
          receivers[r].initReads = {"A", "B"} =>
             Count(lastOp'.runs, receivers[r].listener) = 1]_vars

\* C2: with effect(() => log.push(a.value)) created when A holds v0, the initial
\* run logs v0, no write changes the log, and the flush that follows one or more
\* value-changing writes to A appends exactly one entry, the last value
\* written: after the first such flush the log is <<v0, vk>>.
C2_LogCollapses ==
  [][/\ lastOp'.op = "effect" => log' = <<value["A"]>>
     /\ lastOp'.op \in {"setValue", "setSame"} => log' = log
     /\ FlushStep =>
          log' = IF owed # {} THEN Append(log, value["A"]) ELSE log]_vars

C2_Witness ==
  /\ lastOp.op = "flush"
  /\ Len(log) = 2
  /\ log[1] # log[2]

\* C3: a write whose next value equals the current value changes neither the
\* value, the listener sets, the pending set nor the flush flag, and invokes no
\* listener.
C3_EqualWriteIsNoOp ==
  [][lastOp'.op = "setSame" =>
       /\ UNCHANGED <<value, listeners, pendingListeners, flushScheduled,
                      microtasks, receivers, currentEffect>>
       /\ lastOp'.runs = <<>>]_vars

C3_Witness ==
  /\ lastOp.op = "setSame"
  /\ \A s \in Sigs : listeners[s] # <<>>
  /\ pendingListeners = <<>>
  /\ ~flushScheduled

\* C4: every invocation of an effect's body, initial run or re-run, executes with
\* the hub's current effect set to that effect's receiver.
C4_BodyRunsTracked ==
  \A i \in 1..Len(lastOp.runs) : lastOp.runs[i].ce = lastOp.runs[i].listener

\* C5: every listener in the pending set when a flush starts is invoked in that
\* flush, also when one of them throws.
C5_ThrowDoesNotSkip ==
  [][FlushStep =>
       \A l \in Range(pendingListeners) : Count(lastOp'.runs, l) >= 1]_vars

\* C6: when effect(fn) or the computed's lazy initialization returns or throws,
\* the current effect is what it was before the call; between operations it is
\* undefined.
C6_ContextRestored ==
  /\ currentEffect = None
  /\ \A i \in 1..Len(lastOp.ctx) : lastOp.ctx[i].after = lastOp.ctx[i].before

C6_Witness ==
  /\ \E i \in 1..Len(lastOp.ctx) :
        lastOp.ctx[i].before # None /\ lastOp.ctx[i].threw
  /\ lastOp.threw

\* C7: when no listener throws, a value-changing write to a signal that an
\* undisposed effect read in its initial run is eventually followed by a run of
\* that effect's body by a flush.
C7_EventuallyRerun ==
  \A r \in 1..MaxEffects :
     (r \in owed) ~>
        (/\ lastOp.op = "flush"
         /\ r <= Len(receivers)
         /\ Count(lastOp.runs, receivers[r].listener) >= 1)

\* C8: no listener is invoked during setValue; listeners are invoked only by
\* the flush.
C8_NoSyncNotify ==
  \A i \in 1..Len(lastOp.runs) :
     lastOp.runs[i].via = "listener" => lastOp.op = "flush"

C8_Witness ==
  /\ lastOp.op = "setValue"
  /\ Len(pendingListeners) >= 2
  /\ lastOp.runs = <<>>

\* C9: a flush invokes listeners in the order of their first enqueue;
\* re-enqueueing a pending listener does not move it.
C9_FlushOrder ==
  [][FlushStep => IsPrefix(Called(lastOp'.runs), enqOrder)]_vars

C9_Witness ==
  /\ lastOp.op = "flush"
  /\ Len(Called(lastOp.runs)) >= 2

\* C10: a listener enqueued while a flush runs is not invoked in that pass, is
\* left in the fresh pending set with a flush scheduled, and is invoked by that
\* later flush; a pass invokes at most the listeners pending at its start.
C10_CascadeDeferred ==
  [][FlushStep =>
       /\ IsPrefix(Called(lastOp'.runs), pendingListeners)
       /\ deferred' \subseteq Range(pendingListeners')
       /\ deferred' # {} => flushScheduled' /\ microtasks' > 0
       /\ \A l \in deferred : Count(lastOp'.runs, l) >= 1]_vars

\* how many times the function given to computed() was invoked
NumFn(runs) ==
  Cardinality({i \in 1..Len(runs) : runs[i].listener.kind = "rc"})

\* C11: constructing the computed invokes its function zero times; an operation
\* that accesses .value (a read by the program, the initial run of an effect
\* that reads it) invokes the function once when the computed is not yet
\* initialized and zero times when it is, and a first access that does not
\* throw leaves it initialized; writes, subscribe, cleanup and dispose never
\* invoke it.
C11_ComputedLazy ==
  [][/\ lastOp'.op \in {"read", "effect"} =>
          /\ NumFn(lastOp'.runs) = IF initialized THEN 0 ELSE 1
          /\ ~lastOp'.threw => initialized'
     /\ lastOp'.op \notin {"read", "effect", "flush"} =>
          NumFn(lastOp'.runs) = 0 /\ initialized' = initialized]_vars

C11_Witness ==
  /\ lastOp.op = "read"
  /\ initialized
  /\ ~lastOp.threw
  /\ NumFn(lastOp.runs) = 0
  /\ closures = 1

\* C12: c1.subscribe(listener) on a computed that was not accessed yet runs the
\* computed's function once and leaves the computed initialized, with the
\* signals the function read holding the recompute listener.
C12_SubscribeForcesInit ==
  [][(lastOp'.op = "subscribe" /\ ~initialized) =>
        /\ NumFn(lastOp'.runs) = 1
        /\ ~lastOp'.threw => initialized'
        /\ ~lastOp'.threw => \E k \in 1..MaxClosures :
                                RcL(k) \in Range(listeners'["A"])]_vars

\* the computed is initialized and its cleanup() was not called
ComputedLive ==
  /\ initialized
  /\ cleanupEffect # None
  /\ ~receivers[cleanupEffect].disposed

\* the computed's function evaluated on the signal values val, outside any
\* tracking context: .ret is its result, .thrown tells that it threw
FnOn(val) == Cfn([St EXCEPT !.value = val, !.currentEffect = None])

\* C13: when a turn made a value-changing write to a signal that the function
\* of an initialized computed read when it was initialized, the next flush
\* invokes the function exactly once and, unless the function throws on the
\* new values, leaves its result as the cached value.
C13_RecomputedOnce ==
  [][(FlushStep /\ ComputedLive /\ cleanupEffect \in owed) =>
        /\ NumFn(lastOp'.runs) = 1
        /\ ~FnOn(value').thrown => value'[internalSignal] = FnOn(value').ret]_vars

\* C14: whenever no flush is scheduled, the cached value of an initialized
\* computed that was not cleaned up equals its function evaluated on the
\* current signal values (when the function does not throw on them), also when
\* the function reads different signals on different runs.
C14_ConsistentAtQuiescence ==
  (~flushScheduled /\ ComputedLive /\ ~FnOn(value).thrown) =>
     value[internalSignal] = FnOn(value).ret

\* the computed was initialized and its cleanup() has been called since
ComputedCleaned ==
  /\ initialized
  /\ cleanupEffect # None
  /\ receivers[cleanupEffect].disposed

\* C15: once cleanup() has returned on an initialized computed, no operation
\* invokes the computed's function, re-runs the initialization or changes the
\* cached value.
C15_FrozenAfterCleanup ==
  [][ComputedCleaned =>
        /\ NumFn(lastOp'.runs) = 0
        /\ closures' = closures
        /\ initialized'
        /\ value'[internalSignal] = value[internalSignal]]_vars

\* receiver r is an undisposed effect whose initial run read the computed
ReadsComputed(r) ==
  /\ r <= Len(receivers)
  /\ receivers[r].retained
  /\ ~receivers[r].disposed
  /\ receivers[r].listener.kind = "fn"
  /\ internalSignal \in receivers[r].initReads

\* C16: an undisposed effect whose initial run read c1.value is subscribed to
\* the computed's internal signal; and when a recomputation made by a flush
\* changes the cached value, so that the effect's listener is enqueued during
\* that flush, a later flush invokes the effect's body (lastOp.late: the
\* listeners a flush invoked that the flush before it had enqueued).
C16_TransitiveDependency ==
  /\ [](\A r \in 1..(MaxEffects + 1) :
          ReadsComputed(r) =>
             receivers[r].listener \in Range(listeners[internalSignal]))
  /\ \A r \in 1..(MaxEffects + 1) :
        (ReadsComputed(r) /\ receivers[r].listener \in deferred)
           ~> (lastOp.op = "flush" /\ FnL("fReadC") \in lastOp.late)

\* C17: calling the disposer of an effect that was already disposed changes
\* neither the listener sets, the receivers (cleanup list, dependency set), the
\* pending set, the flush flag nor any signal value, and raises no error.
C17_DisposeIdempotent ==
  [][lastOp'.op = "disposeAgain" =>
       /\ UNCHANGED <<value, listeners, receivers, pendingListeners,
                      flushScheduled, microtasks, currentEffect>>
       /\ ~lastOp'.threw]_vars

C17_Witness ==
  /\ lastOp.op = "disposeAgain"
  /\ pendingListeners # <<>>
  /\ \E s \in Sigs : listeners[s] # <<>>

\* the listeners subscribed to some signal
Subscribed == UNION {Range(listeners[s]) : s \in AllSigs}

C19_ThrowingUpdater ==
  [][lastOp'.op = "setThrow" =>
       /\ lastOp'.threw
       /\ lastOp'.runs = <<>>
       /\ UNCHANGED <<value, listeners, receivers, pendingListeners,
                      flushScheduled, microtasks, currentEffect>>]_vars

C19_Witness ==
  /\ lastOp.op = "setThrow"
  /\ lastOp.threw
  /\ \A s \in Sigs : listeners[s] # <<>>
  /\ ~flushScheduled
  /\ pendingListeners = <<>>

\* C20: a signal's stored value changes only in an operation that performed a
\* write whose next value differed from the current one (lastOp.wrote); a
\* dispose, an equal write, a throwing updater, and an effect creation or a
\* flush whose callbacks performed no such write leave every value as it was;
\* and after an operation that performed such a write, every listener that was
\* subscribed to the written signal at the moment of the write (enqOrder) is in
\* the pending set and a flush is scheduled.
C20_GetterStable ==
  [][/\ (\E s \in AllSigs : value'[s] # value[s]) => lastOp'.wrote
     /\ lastOp'.op \in {"dispose", "disposeAgain", "setSame", "setThrow"} =>
          ~lastOp'.wrote
     /\ lastOp'.wrote =>
          /\ flushScheduled' /\ microtasks' > 0
          /\ Range(enqOrder') \subseteq Range(pendingListeners')]_vars

C20_Witness ==
  /\ lastOp.op = "flush"
  /\ lastOp.wrote
  /\ flushScheduled
  /\ pendingListeners # <<>>

\* ------------------------------------------------------------------- store
\* Field keys and attribute keys are strings, written as sequences of
\* characters; the store under study is createStore({a: _, b: _}).
MaxAttrs == 2

toUpperCase(c) ==
  CASE c = "a" -> "A" [] c = "b" -> "B" [] c = "x" -> "X" [] OTHER -> c

capitalizeFirstLetter(text) ==
  IF text = <<>> THEN <<>> ELSE <<toUpperCase(text[1])>> \o Tail(text)

\* the keys of initialState in declaration order, and the signal of each
initialState == << <<"a">>, <<"b">> >>
signals == [key \in Range(initialState) |->
              CASE key = <<"a">> -> "A" [] key = <<"b">> -> "B"]

SetterName(key) == <<"s", "e", "t">> \o capitalizeFirstLetter(key)

\* mutations[`set${capitalizeFirstLetter(key)}`] = signal.setValue, assigned
\* in declaration order (a later field overwrites an equal name)
mutations ==
  [n \in {SetterName(k) : k \in Range(initialState)} |->
     LET i == CHOOSE i \in 1..Len(initialState) :
                /\ SetterName(initialState[i]) = n
                /\ \A j \in (i + 1)..Len(initialState) :
                     SetterName(initialState[j]) # n
     IN signals[initialState[i]]]

AttrKeys == {<<"a">>, <<"b">>, <<"A">>, <<"x">>}
AttrVals == {Lit(v) : v \in Vals} \cup {Upd("inc")}
\* objects passed to assigns: entries in iteration order, keys distinct
AttrLists ==
  {<<>>} \cup
  UNION {{s \in [1..n -> [key : AttrKeys, value : AttrVals]] :
            \A i, j \in 1..n : i # j => s[i].key # s[j].key} : n \in 1..MaxAttrs}

RECURSIVE assignsLoop(_, _, _)
assignsLoop(sx, attrs, i) ==
  Bind(sx, LAMBDA st :
  IF i > Len(attrs) \/ st.thrown THEN st
  ELSE LET n == SetterName(attrs[i].key) IN
       IF n \in DOMAIN mutations
       THEN assignsLoop(Write(st, mutations[n], attrs[i].value), attrs, i + 1)
       ELSE assignsLoop(st, attrs, i + 1))

assigns(st, attrs) == assignsLoop(st, attrs, 1)

\* store.mutations.assigns(attrs) called by the program
Assigns(attrs) ==
  /\ currentEffect = None
  /\ Commit(assigns(St, attrs), Op("assigns"))

StoreFns == {"fCond", "fWrite"}

NextStore ==
  \/ \E attrs \in AttrLists : Assigns(attrs)
  \/ \E f \in StoreFns : CreateEffect(f)
  \/ \E r \in 1..MaxEffects : Dispose(r)
  \/ Flush

StoreSpec == Init /\ [][NextStore]_vars

\* The program of the README: one setX call per key of attrs that is a field
\* of the store, in the iteration order of attrs.
RECURSIVE SetEach(_, _, _)
SetEach(sx, attrs, i) ==
  Bind(sx, LAMBDA st :
  IF i > Len(attrs) \/ st.thrown THEN st
  ELSE IF attrs[i].key \in Range(initialState)
       THEN SetEach(Write(st, signals[attrs[i].key], attrs[i].value),
                    attrs, i + 1)
       ELSE SetEach(st, attrs, i + 1))

\* C21: assigns(attrs) leaves the signal values, the pending set and the flush
\* flag exactly as one setX(attrs[x]) call per field key x of attrs would, in
\* the iteration order of attrs; keys that are not fields change nothing, and
\* at most one flush microtask is queued for all of it.
C21_AssignsIsSetEach ==
  [][\A attrs \in AttrLists :
       Assigns(attrs) =>
         \E ref \in {SetEach(St, attrs, 1)} :
           /\ value' = ref.value
           /\ pendingListeners' = ref.pendingListeners
           /\ flushScheduled' = ref.flushScheduled
           /\ microtasks' = ref.microtasks
           /\ microtasks' <= 1]_vars

\* C22: at most one flush microtask is queued and not yet run, the
\* flush-scheduled flag is true exactly when one is, and scheduleFlush called
\* while the flag is true changes nothing.
C22_SingleFlushInFlight ==
  /\ microtasks <= 1
  /\ flushScheduled <=> microtasks = 1
  /\ flushScheduled => scheduleFlush(St) = St

\* two value-changing writes to different signals in one turn, each enqueuing
\* one listener: the second one called scheduleFlush with the flag set
C22_Witness ==
  /\ lastOp.op = "setValue" /\ lastOp.wrote
  /\ Len(pendingListeners) = 2
  /\ \A s \in Sigs : Len(listeners[s]) <= 1
  /\ \A r \in 1..Len(receivers) : ~receivers[r].disposed
  /\ flushScheduled /\ microtasks = 1

\* C23: between operations, a non-empty pending set always has a flush
\* scheduled; and right after a flush in which no listener wrote, the pending
\* set is empty and the flush flag is false.
C23_NoOrphanedNotification ==
  /\ pendingListeners # <<>> => flushScheduled /\ microtasks > 0
  /\ lastOp.op = "flush" /\ ~lastOp.wrote =>
       pendingListeners = <<>> /\ ~flushScheduled

\* a flush that invoked a listener, none of which wrote, has just completed
C23_Witness ==
  /\ lastOp.op = "flush" /\ ~lastOp.wrote /\ ~lastOp.threw
  /\ Len(lastOp.runs) > 0
  /\ pendingListeners = <<>> /\ ~flushScheduled

\* C24: an effect whose disposer has not been called stays subscribed to every
\* signal it read in its initial run, whichever branch its later runs take; a
\* value-changing write to such a signal enqueues it for the next flush; and
\* its dependency set never loses a signal while it is undisposed.
C24_NoPruning ==
  /\ [](\A r \in 1..Len(receivers) :
          (receivers[r].retained /\ ~receivers[r].disposed) =>
             /\ \A s \in receivers[r].initReads :
                   receivers[r].listener \in Range(listeners[s])
             /\ r \in owed => receivers[r].listener \in Range(pendingListeners))
  /\ [][\A r \in 1..Len(receivers) :
          (/\ receivers[r].retained /\ ~receivers[r].disposed
           /\ r <= Len(receivers') /\ ~receivers'[r].disposed) =>
             receivers[r].signalHolders \subseteq receivers'[r].signalHolders]_vars

\* C25: a listener enqueued by a write and then unsubscribed from every signal
\* by a disposer before the flush ran is invoked exactly once by that flush,
\* and no later flush invokes it while it stays unsubscribed.
C25_DisposedStillFlushedOnce ==
  [][lastOp'.op = "flush" =>
       \A l \in {FnL(f) : f \in CoreFns} :
          l \notin Subscribed =>
             /\ l \in Range(pendingListeners) => Count(lastOp'.runs, l) = 1
             /\ l \notin Range(pendingListeners) => Count(lastOp'.runs, l) = 0]_vars

\* effects whose body reads one signal more than once
ReadFns == {"fTwice", "fCond"}

NextRead ==
  \/ \E s \in Sigs, v \in Vals : SetValue(s, Lit(v))
  \/ \E f \in ReadFns : CreateEffect(f)
  \/ \E r \in 1..MaxEffects : Dispose(r)
  \/ Flush

ReadSpec == Init /\ [][NextRead]_vars

\* C26: every receiver holds exactly one unsubscribe action per signal of its
\* dependency set, however often its body read the signal: the recorded
\* unsubscribe actions are for pairwise different signals, and these are the
\* signals of the dependency set.
C26_RegisteredOncePerCell ==
  \A r \in 1..Len(receivers) :
     LET cs == receivers[r].cleanup IN
     /\ Len(cs) = Cardinality(receivers[r].signalHolders)
     /\ {cs[i].sig : i \in 1..Len(cs)} = receivers[r].signalHolders
     /\ \A i, j \in 1..Len(cs) : cs[i].sig = cs[j].sig => i = j

\* an effect whose body read A twice and B once holds two unsubscribe actions
C26_Witness ==
  \E r \in 1..Len(receivers) :
     /\ receivers[r].listener = FnL("fTwice")
     /\ receivers[r].signalHolders = {"A", "B"}
     /\ Len(receivers[r].cleanup) = 2

\* C27: reads made by an inner effect's initial run, or by the computed's lazy
\* initialization, inside an outer effect's body are registered with the inner
\* receiver only; the reads of the rest of the outer body are registered with
\* the outer effect. So the effect of fOuter depends on A alone, the effect of
\* fReadC on the computed's internal signal and B, and the computed's receiver
\* on upstream signals only.
C27_NestedTrackingIsolated ==
  \A r \in 1..Len(receivers) :
     LET rc == receivers[r]
         subs == {s \in AllSigs : \E i \in 1..Len(rc.cleanup) : rc.cleanup[i].sig = s}
     IN
     /\ (rc.retained /\ ~rc.disposed /\ rc.listener = FnL("fOuter")) =>
           rc.signalHolders = {"A"} /\ subs = {"A"}
     /\ (rc.retained /\ ~rc.disposed /\ rc.listener = FnL("fReadC")) =>
           rc.signalHolders = {internalSignal, "B"} /\ subs = {internalSignal, "B"}
     /\ rc.listener.kind = "rc" =>
           rc.signalHolders \subseteq Sigs /\ subs \subseteq Sigs

\* effect(fOuter) has returned: its body created the inner effect of fThrow,
\* which read B, and then read A itself
C27_Witness ==
  /\ lastOp.op = "effect" /\ ~lastOp.threw
  /\ \E i \in 1..Len(lastOp.ctx) : lastOp.ctx[i].before # None
  /\ \E r \in 1..Len(receivers) :
        /\ receivers[r].listener = FnL("fOuter")
        /\ receivers[r].signalHolders = {"A"}
  /\ FnL("fThrow") \in Range(listeners["B"])

\* C28: calling the disposer of one effect removes no subscription of any
\* other undisposed effect: whatever listener set held the other effect's
\* listener before the call still holds it afterwards, also when both effects
\* were created from the same callback.
C28_DisposalIsolated ==
  [][lastOp'.op = "dispose" =>
       \A r, q \in 1..Len(receivers) :
          (/\ q # r
           /\ ~receivers[r].disposed /\ receivers'[r].disposed
           /\ receivers[q].retained /\ ~receivers[q].disposed) =>
             \A s \in receivers[q].signalHolders :
                receivers[q].listener \in Range(listeners[s]) =>
                   receivers[q].listener \in Range(listeners'[s])]_vars

\* C29: when fn throws in the initial run of effect(fn) called by the program,
\* fn is afterwards in the listener set of no signal, unless an effect created
\* earlier from the same callback is still subscribed there.
C29_FailedCreationLeavesNothing ==
  [][(lastOp'.op = "effect" /\ lastOp'.threw) =>
       \A s \in AllSigs :
          lastOp'.runs[1].listener \in Range(listeners'[s]) =>
             lastOp'.runs[1].listener \in Range(listeners[s])]_vars

\* C30: every upstream signal holds at most one recompute listener of the
\* computed in its listener set, also after accesses whose lazy initialization
\* threw.
C30_OneRecomputeListener ==
  \A s \in Sigs :
     Cardinality({l \in Range(listeners[s]) : l.kind = "rc"}) <= 1

\* Programs with the logging effect next to an effect that can throw.
LogFns == {"fLog", "fThrow"}

NextLogThrow ==
  \/ \E s \in Sigs, v \in Vals : Len(log) < MaxLog /\ SetValue(s, Lit(v))
  \/ \E f \in LogFns : Len(log) < MaxLog /\ CreateEffect(f)
  \/ Flush

LogThrowSpec == Init /\ [][NextLogThrow]_vars

\* C31: notification is decided per write. When the logging effect was
\* enqueued by a value-changing write of the turn and A has since been written
\* back to the value the effect last logged, the following flush still invokes
\* it exactly once, and it logs that same value again.
C31_NotifiedPerWrite ==
  [][(/\ lastOp'.op = "flush"
      /\ FnL("fLog") \in Range(enqOrder)
      /\ log # <<>> /\ value["A"] = log[Len(log)]) =>
        /\ Count(lastOp'.runs, FnL("fLog")) = 1
        /\ log' = Append(log, value["A"])]_vars

\* ------------------------------ store revision with subscribe: operations
ChangeFns == {"lPlain", "lWrite", "lThrow", "lOnce"}
SetArgs == {Lit(v) : v \in Vals} \cup {Upd("inc")}

store_scheduleFlush(sr) ==
  IF ~sr.flushScheduled
  THEN [sr EXCEPT !.microtasks = @ + 1, !.flushScheduled = TRUE]
  ELSE sr

\* helper.ts removeArrayItem: the first occurrence is spliced out
removeArrayItem(array, item) ==
  IF \E i \in 1..Len(array) : array[i] = item
  THEN LET index == CHOOSE i \in 1..Len(array) :
                      array[i] = item /\ \A j \in 1..(i - 1) : array[j] # item
       IN SubSeq(array, 1, index - 1) \o SubSeq(array, index + 1, Len(array))
  ELSE array

\* for (const hubKey in hub) { if (entry.dependentFieldKeys.has(key)) entry.refreshView?.() }
RECURSIVE RefreshViews(_, _, _)
RefreshViews(sx, key, i) ==
  Bind(sx, LAMBDA sr :
  IF i > Len(sr.hub) THEN sr
  ELSE LET entry == sr.entries[sr.hub[i].e] IN
       IF key \in entry.dependentFieldKeys /\ entry.refreshView
       THEN RefreshViews([sr EXCEPT !.last.refreshed = Append(@, sr.hub[i].e)],
                         key, i + 1)
       ELSE RefreshViews(sr, key, i + 1))

store_setValue(sx, key, arg) ==
  Bind(sx, LAMBDA sr :
  LET v == ApplyPayload(arg, sr.state[key]) IN
  IF v = sr.state[key] THEN sr
  ELSE LET s1 == [sr EXCEPT !.state[key] = v,
                            !.changeset = [def |-> TRUE,
                                           obj |-> [@.obj EXCEPT ![key] = v]]]
       IN RefreshViews(store_scheduleFlush(s1), key, 1))

\* history of a committed change
NoteCommit(before, key, sx) ==
  Bind(sx, LAMBDA after :
  IF after.state[key] = before.state[key] THEN after
  ELSE [after EXCEPT
          !.turn[key] = after.state[key],
          !.owed = @ \cup {<<l, key>> : l \in Range(before.listeners)}])

SetField(sx, key, arg) ==
  Bind(sx, LAMBDA sr : NoteCommit(sr, key, store_setValue(sr, key, arg)))

\* subscribe(fn) and the function it returns
store_subscribe(sr, fn) == [sr EXCEPT !.listeners = Append(@, fn)]

store_unsubscribe(sr, fn) ==
  [sr EXCEPT !.listeners = removeArrayItem(@, fn),
             !.owed = IF fn \in Range(removeArrayItem(sr.listeners, fn))
                      THEN @ ELSE {p \in @ : p[1] # fn}]

\* listener(changeset)
CallChangesListener(sx, l) ==
  Bind(sx, LAMBDA sr :
  LET cs == sr.changeset.obj
      s1 == [sr EXCEPT !.last.calls = Append(@, [listener |-> l, cs |-> cs]),
                       !.owed = {p \in @ : ~(p[1] = l /\ cs[p[2]] # Undef)}]
  IN CASE l = "lWrite" ->   \* cs => { if (cs.a !== undefined) setB(cs.a) }
            IF cs["a"] # Undef THEN SetField(s1, "b", Lit(cs["a"])) ELSE s1
       [] l = "lThrow" ->   \* cs => { if (cs.b === 0) throw new Error() }
            IF cs["b"] = 0 THEN [s1 EXCEPT !.thrown = TRUE] ELSE s1
       [] l = "lOnce" ->    \* cs => { unsubscribe() }
            store_unsubscribe(s1, l)
       [] OTHER -> s1)      \* cs => { }

\* for (const listener of listeners) listener(changeset): the array iterator
\* holds an index into the live array
RECURSIVE DeliverLoop(_, _)
DeliverLoop(sx, i) ==
  Bind(sx, LAMBDA sr :
  IF i > Len(sr.listeners) \/ sr.thrown THEN sr
  ELSE DeliverLoop(CallChangesListener(sr, sr.listeners[i]), i + 1))

flushChanges(sx) ==
  Bind(sx, LAMBDA sr :
  IF sr.changeset.def
  THEN Bind(DeliverLoop(sr, 1), LAMBDA s1 :
       IF s1.thrown THEN s1
       ELSE [s1 EXCEPT !.changeset = [def |-> FALSE, obj |-> NoKeys],
                       !.flushScheduled = FALSE])
  ELSE [sr EXCEPT !.flushScheduled = FALSE])

\* ---------------------------------------------------------------- actions
OtherVars == <<value, listeners, receivers, currentEffect, pendingListeners,
               flushScheduled, microtasks, owed, enqOrder, deferred, log,
               initialized, cleanupEffect, closures, cfn, lastOp>>

SSt(name) == [store EXCEPT !.thrown = FALSE, !.last = SOp(name)]

SCommit(sx) ==
  \E sr \in {sx} :
    /\ store' = [sr EXCEPT !.last.threw = sr.thrown]
    /\ UNCHANGED OtherVars

\* store.setA(arg), store.setB(arg) called by the program
StoreSet(key, arg) ==
  /\ key \in FieldKeys
  /\ SCommit(SetField(SSt(IF ApplyPayload(arg, store.state[key]) = store.state[key]
                          THEN "setSame" ELSE "set"), key, arg))

\* const unsubscribe = store.subscribe(fn) called by the program
Subscribe(fn) ==
  /\ Len(store.listeners) < MaxListeners
  /\ fn \notin Range(store.listeners)
  /\ SCommit(store_subscribe(SSt("subscribe"), fn))

\* unsubscribe() called by the program
Unsubscribe(fn) ==
  /\ fn \in Range(store.listeners)
  /\ SCommit(store_unsubscribe(SSt("unsubscribe"), fn))

\* the microtask queued by scheduleFlush runs
FlushChanges ==
  /\ store.microtasks > 0
  /\ SCommit(flushChanges([SSt("flush") EXCEPT !.microtasks = @ - 1,
                                               !.turn = NoKeys]))

\* the store is created once; the signals beside it hold their initial values
InitRev ==
  /\ Init
  /\ \A s \in Sigs : value[s] = 0

NextChange ==
  \/ \E key \in FieldKeys, arg \in SetArgs : StoreSet(key, arg)
  \/ \E fn \in ChangeFns : Subscribe(fn)
  \/ \E fn \in ChangeFns : Unsubscribe(fn)
  \/ FlushChanges

ChangeSpec == InitRev /\ [][NextChange]_vars

\* C32: the flush calls every subscribed change listener exactly once, with a
\* changeset holding exactly the keys committed since the previous flush
\* began, each with its last committed value (no call when there is none); a
\* set to the current value leaves changeset, flag and microtask queue alone.
C32_ChangesetBatched ==
  [][/\ store'.last.op = "flush" =>
          store'.last.calls =
             IF store.turn = NoKeys THEN <<>>
             ELSE [i \in 1..Len(store.listeners) |->
                     [listener |-> store.listeners[i], cs |-> store.turn]]
     /\ store'.last.op = "setSame" =>
          /\ store'.changeset = store.changeset
          /\ store'.flushScheduled = store.flushScheduled
          /\ store'.microtasks = store.microtasks]_vars

ChangeLiveSpec == ChangeSpec /\ WF_vars(FlushChanges)

\* C33: every committed change of a field is eventually delivered to every
\* change listener that was subscribed when it was committed and stays
\* subscribed: a pair <<listener, key>> that is owed does not stay owed.
C33_NoLostChange ==
  \A l \in ChangeFns, k \in FieldKeys :
     (<<l, k>> \in store.owed) ~> (<<l, k>> \notin store.owed)

\* C34: after every run of flushChanges, also one in which a change listener
\* threw, flushScheduled is false and the changeset is undefined.
C34_FlushFlagRecovers ==
  store.last.op = "flush" => ~store.flushScheduled /\ ~store.changeset.def

\* ------------------------------------------------------------ hook entries
HookIds == {"h1", "h2"}

\* createHookEntry(hookId), called by the first useSnapshot() of a component
createHookEntry(sr, hookId) ==
  [sr EXCEPT !.entries = Append(@, [id |-> hookId, dependentFieldKeys |-> {},
                                    refreshView |-> FALSE, mounted |-> FALSE])]

\* the getter of getterObject[key]
GetterRead(sr, e, key) ==
  [sr EXCEPT !.entries[e].dependentFieldKeys = @ \cup {key}]

HubIndex(hub, hookId) ==
  IF \E i \in 1..Len(hub) : hub[i].id = hookId
  THEN CHOOSE i \in 1..Len(hub) : hub[i].id = hookId
  ELSE 0

\* hub[hookId] = hookEntry
activate(sr, e) ==
  LET hookId == sr.entries[e].id
      i == HubIndex(sr.hub, hookId)
  IN IF i = 0 THEN [sr EXCEPT !.hub = Append(@, [id |-> hookId, e |-> e])]
     ELSE [sr EXCEPT !.hub[i].e = e]

\* if (hub[hookId] === hookEntry) delete hub[hookId]
deactivate(sr, e) ==
  LET i == HubIndex(sr.hub, sr.entries[e].id) IN
  IF i # 0 /\ sr.hub[i].e = e
  THEN [sr EXCEPT !.hub = SubSeq(@, 1, i - 1) \o SubSeq(@, i + 1, Len(@))]
  ELSE sr

\* first render of a component calling useSnapshot(): the id is random
UseSnapshot(hookId) ==
  /\ Len(store.entries) < MaxHooks
  /\ SCommit(createHookEntry(SSt("useSnapshot"), hookId))

\* a render reads snapshot[key]
ReadSnapshot(e, key) ==
  /\ e \in 1..Len(store.entries)
  /\ SCommit(GetterRead(SSt("read"), e, key))

\* the useEffect callback: refreshView is set, then activate()
MountEffect(e) ==
  /\ e \in 1..Len(store.entries)
  /\ ~store.entries[e].mounted
  /\ SCommit(activate([SSt("activate") EXCEPT !.entries[e].refreshView = TRUE,
                                              !.entries[e].mounted = TRUE], e))

\* the useEffect cleanup: deactivate()
UnmountEffect(e) ==
  /\ e \in 1..Len(store.entries)
  /\ store.entries[e].mounted
  /\ SCommit(deactivate([SSt("deactivate") EXCEPT !.entries[e].mounted = FALSE], e))

NextHook ==
  \/ \E key \in FieldKeys, arg \in SetArgs : StoreSet(key, arg)
  \/ \E hookId \in HookIds : UseSnapshot(hookId)
  \/ \E e \in 1..MaxHooks, key \in FieldKeys : ReadSnapshot(e, key)
  \/ \E e \in 1..MaxHooks : MountEffect(e)
  \/ \E e \in 1..MaxHooks : UnmountEffect(e)
  \/ FlushChanges

HookSpec == InitRev /\ [][NextHook]_vars

\* entries registered in the hub
Registered(sr) == {sr.hub[i].e : i \in 1..Len(sr.hub)}

\* C35: a value-changing set of field k calls refreshView once for each entry
\* that has been activated and not deactivated since and has read k through
\* its getter, and for no other entry; deactivating an entry leaves every
\* other registered entry registered.
C35_PerFieldRefresh ==
  [][/\ store'.last.op = "set" =>
          \A k \in FieldKeys :
             store'.state[k] # store.state[k] =>
                /\ Range(store'.last.refreshed) =
                      {e \in 1..Len(store.entries) :
                         /\ store.entries[e].mounted
                         /\ k \in store.entries[e].dependentFieldKeys}
                /\ Len(store'.last.refreshed) =
                      Cardinality(Range(store'.last.refreshed))
     /\ store'.last.op = "deactivate" =>
          \A e \in Registered(store) :
             store.entries[e].mounted = store'.entries[e].mounted =>
                e \in Registered(store')]_vars

====
